---- MODULE Spec2Model ----
(***************************************************************************)
(* Model of Attack_decision/attack_dg.py: the synthetic attack-decision    *)
(* dataset generator (pool construction, batch sampling, feature           *)
(* aggregation, rule cascade, label noise, determinism of the seeded       *)
(* random stream).                                                         *)
(*                                                                         *)
(* Numbers that are floats in the program (importance, scan_confidence,    *)
(* probabilities) are integers here, in units of 1/10000: 0.7 is 7000.     *)
(* round(x, 3) therefore rounds to a multiple of 10.                       *)
(***************************************************************************)
EXTENDS Integers, Sequences, FiniteSets, TLC

VARIABLES
    pc,             \* position of the program
    master_rows,    \* argument of generate_attack_dataset: the source records
    num_rows,       \* argument of generate_attack_dataset
    all_pool,       \* file_pool + proc_pool + port_pool
    dataset,        \* rows appended so far
    i,              \* loop index of the row loop
    k,              \* batch size of the current row
    session_idx,    \* pool positions chosen by random.sample / random.choice
    with_replacement, \* which branch of the sampling conditional ran
    session_items,  \* the batch of the current row
    features,       \* aggregate_features(session_items)
    evasion_flag,
    last_action,
    label,
    noise_draw,     \* the value of random.random() compared to NOISE_FLIP_PROB
    noise_choice,   \* the value of random.choice(SIM_LABELS) in the noise step
    file_item,      \* the record under normalisation (normaliser harness)
    recon_item,     \* its normalised item
    rng,            \* state of the process-wide random stream
    process,        \* ordinal of the running interpreter process
    call,           \* ordinal of the invocation within the process
    runs            \* history: the outputs written so far, per process and call

vars == <<pc, master_rows, num_rows, all_pool, dataset, i, k, session_idx,
          with_replacement, session_items, features, evasion_flag, last_action,
          label, noise_draw, noise_choice, file_item, recon_item, rng, process, call,
          runs>>

-----------------------------------------------------------------------------
(* CONFIG block of attack_dg.py.  NUM_ROWS (1000 in the program), MAX_ITEMS
   (8) and the two pool sizes (80) are scaled down; with a pool of two or
   three items and batches of up to three, both branches of the sampling
   conditional run. *)

NUM_ROWS == 2
MIN_ITEMS == 1
MAX_ITEMS == 3
HIGH_IMPORTANCE_THRESHOLD == 7000
EVASION_PROB == 2000
NOISE_FLIP_PROB == 300
RANDOM_SEED == 42
SIM_LABELS == <<"SIM_READ_FILE", "SIM_LIST_PROCESSES", "SIM_SCAN_PORT", "SIM_NO_OP">>

(* Sizes of the synthetic pools: synth_process_pool(80), synth_port_pool(80) *)
NumProc == 1
NumPort == 1

Labels == {SIM_LABELS[n] : n \in 1..Len(SIM_LABELS)}
Types == {"file", "process", "port"}

-----------------------------------------------------------------------------
(* Python values *)

NoField == -1           \* a key that the dict does not have (integer fields)
Missing == "<missing>"  \* a key that the dict does not have (string fields)
NoneStr == "<None>"     \* what dict.get returns for a key that is absent

Get(v, default) == IF v = NoField THEN default ELSE v

Falsy(s) == s = Missing \/ s = ""

(* round-half-even of num/den, den > 0, num >= 0 *)
RoundDiv(num, den) ==
    LET q == num \div den
        r == num % den
    IN  IF 2 * r < den THEN q
        ELSE IF 2 * r > den THEN q + 1
        ELSE IF q % 2 = 0 THEN q ELSE q + 1

(* round(x, 3) on a value in units of 1/10000 *)
Round3(x) == RoundDiv(x, 10) * 10

RECURSIVE SumSeq(_)
SumSeq(s) == IF s = <<>> THEN 0 ELSE Head(s) + SumSeq(Tail(s))

MaxOf(S) == CHOOSE m \in S : \A n \in S : n <= m

-----------------------------------------------------------------------------
(* aggregate_features *)

(* Python's order on the type names: "file" < "none" < "port" < "process" *)
TypeOrder(t) ==
    CASE t = "file" -> 1
      [] t = "none" -> 2
      [] t = "port" -> 3
      [] t = "process" -> 4

Counter(types) ==
    [t \in {types[n] : n \in 1..Len(types)} |->
        Cardinality({n \in 1..Len(types) : types[n] = t})]

(* variant: the key without the minus sign, (x[1], x[0]) *)
TypeKeyLess_count_ascending(c, t, u) ==
    \/ c[t] < c[u]
    \/ (c[t] = c[u] /\ TypeOrder(t) < TypeOrder(u))

(* key=lambda x: (-x[1], x[0]) compared as tuples *)
TypeKeyLess(c, t, u) ==
    \/ -c[t] < -c[u]
    \/ (c[t] = c[u] /\ TypeOrder(t) < TypeOrder(u))

(* sorted(type_counts.items(), key=...)[0][0] *)
SortedFirstType(c) ==
    CHOOSE t \in DOMAIN c : \A u \in DOMAIN c : u # t => TypeKeyLess(c, t, u)

(* variant: a comparison that also replaces the best item by an equal one *)
TopKeyGreater_or_equal(a, b) ==
    \/ a.importance > b.importance
    \/ (a.importance = b.importance /\ a.scan_confidence >= b.scan_confidence)

(* key=lambda r: (r["importance"], r.get("scan_confidence", 0)) *)
TopKeyGreater(a, b) ==
    \/ a.importance > b.importance
    \/ (a.importance = b.importance /\ a.scan_confidence > b.scan_confidence)

(* max(recon_items, key=...): scans left to right and replaces the best so
   far only by a strictly greater key, so the first maximal item is kept *)
RECURSIVE MaxByKey(_, _)
MaxByKey(best, rest) ==
    IF rest = <<>> THEN best
    ELSE IF TopKeyGreater(Head(rest), best) THEN MaxByKey(Head(rest), Tail(rest))
    ELSE MaxByKey(best, Tail(rest))

(* variant: the sum without the filter on the type *)
FileSizes_all_types(recon_items) ==
    [n \in 1..Len(recon_items) |-> Get(recon_items[n].filesize_kb, 0)]

FileSizes(recon_items) ==
    [n \in 1..Len(recon_items) |->
        IF recon_items[n].type = "file" THEN Get(recon_items[n].filesize_kb, 0) ELSE 0]

(* recon_items is non-empty: max() of an empty list raises *)
aggregate_features(recon_items) ==
    LET importances == [n \in 1..Len(recon_items) |-> recon_items[n].importance]
        confs == [n \in 1..Len(recon_items) |-> recon_items[n].scan_confidence]
        max_importance == MaxOf({importances[n] : n \in 1..Len(importances)})
        count_high == Cardinality({n \in 1..Len(importances) :
                                      importances[n] >= HIGH_IMPORTANCE_THRESHOLD})
        types == [n \in 1..Len(recon_items) |-> recon_items[n].type]
        top_item == MaxByKey(Head(recon_items), Tail(recon_items))
    IN  [max_importance_score |-> Round3(max_importance),
         avg_importance_score |-> RoundDiv(SumSeq(importances), 10 * Len(importances)) * 10,
         count_high_importance_items |-> count_high,
         top_item_type |-> SortedFirstType(Counter(types)),
         top_item_id |-> top_item.id,
         top_item_name |-> top_item.name,
         top_item_filesize_kb |-> Get(top_item.filesize_kb, 0),
         total_filesize_kb |-> SumSeq(FileSizes(recon_items)),
         avg_scan_confidence |-> RoundDiv(SumSeq(confs), 10 * Len(confs)) * 10]

-----------------------------------------------------------------------------
(* rule_based_label *)

(* variant: the port rule tested before the high-importance rule *)
rule_based_label_port_first(f, evasion, last) ==
    IF f.top_item_type = "port" /\ f.max_importance_score >= 6000 /\ evasion = 0
        THEN "SIM_SCAN_PORT"
    ELSE IF f.count_high_importance_items >= 1 /\ evasion = 0 THEN "SIM_READ_FILE"
    ELSE IF f.top_item_type = "process" /\ f.max_importance_score >= 5000
        THEN "SIM_LIST_PROCESSES"
    ELSE "SIM_NO_OP"

(* variant: the port rule without the test of the evasion flag *)
rule_based_label_port_unguarded(f, evasion, last) ==
    IF f.count_high_importance_items >= 1 /\ evasion = 0 THEN "SIM_READ_FILE"
    ELSE IF f.top_item_type = "port" /\ f.max_importance_score >= 6000
        THEN "SIM_SCAN_PORT"
    ELSE IF f.top_item_type = "process" /\ f.max_importance_score >= 5000
        THEN "SIM_LIST_PROCESSES"
    ELSE "SIM_NO_OP"

rule_based_label(f, evasion, last) ==
    IF f.count_high_importance_items >= 1 /\ evasion = 0 THEN "SIM_READ_FILE"
    ELSE IF f.top_item_type = "port" /\ f.max_importance_score >= 6000 /\ evasion = 0
        THEN "SIM_SCAN_PORT"
    ELSE IF f.top_item_type = "process" /\ f.max_importance_score >= 5000
        THEN "SIM_LIST_PROCESSES"
    ELSE "SIM_NO_OP"

-----------------------------------------------------------------------------
(* The random module.  Every call of the program reduces to one of two
   primitives: random.random(), a float u in [0, 1) (here 0..9999), and
   _randbelow(n), an integer in 0..n-1. *)

(* random.uniform(a, b) == a + (b - a) * random.random() *)
Uniform(a, b, u) == a + ((b - a) * u) \div 10000

(* f"{n:0wd}" for the widths the program uses *)
Pad(n, width) ==
    LET s == ToString(n)
        zeros == IF n < 10 THEN width - 1
                 ELSE IF n < 100 THEN width - 2
                 ELSE IF n < 1000 THEN width - 3
                 ELSE IF n < 10000 THEN width - 4
                 ELSE IF n < 100000 THEN width - 5
                 ELSE width - 6
    IN  CASE zeros <= 0 -> s
          [] zeros = 1 -> "0" \o s
          [] zeros = 2 -> "00" \o s
          [] zeros = 3 -> "000" \o s
          [] zeros = 4 -> "0000" \o s
          [] zeros = 5 -> "00000" \o s

-----------------------------------------------------------------------------
(* synth_process_pool, synth_port_pool *)

common == <<"svchost.exe", "explorer.exe", "backup_tool.exe", "db_service.exe",
            "antivirus_stub.exe", "monitor_tool.exe", "webserver.exe", "sync_agent.exe">>

(* name.replace('.exe', '') on the names of common *)
ReplaceExe(name) ==
    CASE name = "svchost.exe" -> "svchost"
      [] name = "explorer.exe" -> "explorer"
      [] name = "backup_tool.exe" -> "backup_tool"
      [] name = "db_service.exe" -> "db_service"
      [] name = "antivirus_stub.exe" -> "antivirus_stub"
      [] name = "monitor_tool.exe" -> "monitor_tool"
      [] name = "webserver.exe" -> "webserver"
      [] name = "sync_agent.exe" -> "sync_agent"

common_ports == <<22, 80, 443, 3389, 3306, 445, 21>>

(* one iteration of the loop of synth_process_pool; n is the loop index,
   c the index random.choice picks, u1 and u2 the two uniform draws *)
synth_process_item(n, c, u1, u2) ==
    [type |-> "process",
     id |-> "proc_" \o Pad(n, 4),
     name |-> ReplaceExe(common[c + 1]) \o "_" \o Pad(n, 3) \o ".exe",
     importance |-> Round3(Uniform(0, 10000, u1)),
     scan_confidence |-> Round3(Uniform(5000, 9900, u2)),
     filesize_kb |-> NoField,
     port |-> NoField]

(* one iteration of the loop of synth_port_pool; e is random.randint(1024,
   65535), c the index random.choice picks in common_ports + [e] *)
synth_port_item(n, e, c, u1, u2) ==
    [type |-> "port",
     id |-> "port_" \o Pad(n, 4),
     name |-> NoneStr,
     importance |-> Round3(Uniform(0, 10000, u1)),
     scan_confidence |-> Round3(Uniform(5000, 9900, u2)),
     filesize_kb |-> NoField,
     port |-> Append(common_ports, e)[c + 1]]

-----------------------------------------------------------------------------
(* file_item_to_recon_item *)

(* str.lower() on the sensitivity values of the model *)
Lower(s) ==
    CASE s = "HIGH" -> "high"
      [] s = "High" -> "high"
      [] s = "Medium" -> "medium"
      [] OTHER -> s

(* int(file_item.get("filesize_kb", 0)): a value is an int, a numeric string
   or a string that is no number; int() raises ValueError on the last *)
IntRaises(v) == v.kind = "badstr"

IntOf(v) == IF v.kind = "missing" THEN 0 ELSE v.val

file_item_raises(fi) == IntRaises(fi.filesize_kb)

(* file_item.get("sensitivity", "").lower() and the three ranges *)
SensitivityImportance(fi, u_imp) ==
    LET sens == Lower(IF fi.sensitivity = Missing THEN "" ELSE fi.sensitivity)
    IN  IF sens = "high" THEN Round3(Uniform(7000, 10000, u_imp))
        ELSE IF sens = "medium" THEN Round3(Uniform(4000, 7000, u_imp))
        ELSE Round3(Uniform(0, 5000, u_imp))

(* variant: a signal object without importance falls back on the sensitivity *)
Importance_sensitivity_fallback(fi, u_imp) ==
    IF fi.recon_signal.present /\ fi.recon_signal.importance # NoField
    THEN fi.recon_signal.importance
    ELSE SensitivityImportance(fi, u_imp)

(* importance = 0.5, then the branch on "recon_signal" in file_item *)
Importance(fi, u_imp) ==
    IF fi.recon_signal.present
    THEN Get(fi.recon_signal.importance, 5000)
    ELSE SensitivityImportance(fi, u_imp)

(* u_scan, u_imp: the random.uniform draws; r_id: random.randint(0, 999999) *)
file_item_to_recon_item(fi, u_scan, u_imp, r_id) ==
    LET default_conf == Round3(Uniform(6000, 9900, u_scan))
        importance == Importance(fi, u_imp)
        scan_conf ==
            IF fi.recon_signal.present
            THEN Get(fi.recon_signal.scan_confidence, default_conf)
            ELSE default_conf
    IN  [type |-> "file",
         id |-> IF Falsy(fi.id) THEN "file_" \o Pad(r_id, 6) ELSE fi.id,
         name |-> IF ~Falsy(fi.filename) THEN fi.filename
                  ELSE IF ~Falsy(fi.file_path) THEN fi.file_path
                  ELSE "unknown",
         importance |-> importance,
         scan_confidence |-> scan_conf,
         filesize_kb |-> IntOf(fi.filesize_kb),
         port |-> NoField]

(* which draws the call consumes, in the order of the code *)
DrawsImportance(fi) == ~fi.recon_signal.present
DrawsId(fi) == Falsy(fi.id)

-----------------------------------------------------------------------------
(* Values of the variables a specification does not use *)

NoFeatures ==
    [max_importance_score |-> 0, avg_importance_score |-> 0,
     count_high_importance_items |-> 0, top_item_type |-> "none",
     top_item_id |-> NoneStr, top_item_name |-> NoneStr,
     top_item_filesize_kb |-> 0, total_filesize_kb |-> 0,
     avg_scan_confidence |-> 0]

NoItem ==
    [type |-> "none", id |-> NoneStr, name |-> NoneStr, importance |-> 0,
     scan_confidence |-> 0, filesize_kb |-> NoField, port |-> NoField]

NoSignal == [present |-> FALSE, importance |-> NoField, scan_confidence |-> NoField]

NoFileItem ==
    [id |-> Missing, filename |-> Missing, file_path |-> Missing,
     filesize_kb |-> [kind |-> "missing", val |-> 0], sensitivity |-> Missing,
     recon_signal |-> NoSignal]

-----------------------------------------------------------------------------
(* rule_based_label applied to every feature record of a bounded set *)

ScoreValues == {4990, 5000, 5990, 6000, 6990, 7000}
MaxCountHigh == 2

FeatureRecords ==
    {[NoFeatures EXCEPT !.count_high_importance_items = c,
                        !.top_item_type = t,
                        !.max_importance_score = m] :
        c \in 0..MaxCountHigh, t \in Types \cup {"none"}, m \in ScoreValues}

InitLabel ==
    /\ pc = "h_rule"
    /\ master_rows = <<>> /\ num_rows = 0 /\ all_pool = <<>> /\ dataset = <<>>
    /\ i = 0 /\ k = 0 /\ session_idx = <<>> /\ with_replacement = FALSE
    /\ session_items = <<>>
    /\ features \in FeatureRecords
    /\ evasion_flag \in {0, 1}
    /\ last_action \in Labels
    /\ label = ""
    /\ noise_draw = 0 /\ noise_choice = 0
    /\ file_item = NoFileItem /\ recon_item = NoItem /\ rng = 0 /\ process = 1 /\ call = 1
    /\ runs = <<>>

ApplyRules ==
    /\ pc = "h_rule"
    /\ label' = rule_based_label(features, evasion_flag, last_action)
    /\ pc' = "h_labelled"
    /\ UNCHANGED <<master_rows, num_rows, all_pool, dataset, i, k, session_idx,
                   with_replacement, session_items, features, evasion_flag,
                   last_action, noise_draw, noise_choice, file_item, recon_item,
                   rng, process, call, runs>>

NextLabel == ApplyRules

SpecLabel == InitLabel /\ [][NextLabel]_vars

-----------------------------------------------------------------------------
(* aggregate_features applied to every batch of a bounded set *)

MaxBatch == 3

(* (importance, scan_confidence) of the items of the batches *)
ScorePairs == {<<5000, 6000>>, <<5000, 9000>>, <<8000, 6000>>, <<6996, 6000>>}
SizeValues == {NoField, 300}

BatchItem(n, t, sp, sz) ==
    [type |-> t, id |-> "item_" \o ToString(n),
     name |-> IF t = "port" THEN NoneStr ELSE "name_" \o ToString(n),
     importance |-> sp[1], scan_confidence |-> sp[2],
     filesize_kb |-> sz, port |-> IF t = "port" THEN 22 ELSE NoField]

InitAgg ==
    /\ pc = "h_aggregate"
    /\ master_rows = <<>> /\ num_rows = 0 /\ all_pool = <<>> /\ dataset = <<>>
    /\ i = 0 /\ k = 0 /\ session_idx = <<>> /\ with_replacement = FALSE
    /\ \E len \in 1..MaxBatch :
           \E ts \in [1..len -> Types], sps \in [1..len -> ScorePairs],
              szs \in [1..len -> SizeValues] :
               session_items = [n \in 1..len |-> BatchItem(n, ts[n], sps[n], szs[n])]
    /\ features = NoFeatures
    /\ evasion_flag = 0 /\ last_action = "SIM_NO_OP" /\ label = ""
    /\ noise_draw = 0 /\ noise_choice = 0
    /\ file_item = NoFileItem /\ recon_item = NoItem /\ rng = 0 /\ process = 1 /\ call = 1
    /\ runs = <<>>

ApplyAggregate ==
    /\ pc = "h_aggregate"
    /\ features' = aggregate_features(session_items)
    /\ pc' = "h_aggregated"
    /\ UNCHANGED <<master_rows, num_rows, all_pool, dataset, i, k, session_idx,
                   with_replacement, session_items, evasion_flag, last_action,
                   label, noise_draw, noise_choice, file_item, recon_item, rng,
                   process, call, runs>>

NextAgg == ApplyAggregate

SpecAgg == InitAgg /\ [][NextAgg]_vars

-----------------------------------------------------------------------------
(* file_item_to_recon_item applied to every source record of a bounded set *)

SizeInputs ==
    {[kind |-> "missing", val |-> 0], [kind |-> "int", val |-> 300],
     [kind |-> "numstr", val |-> 300], [kind |-> "badstr", val |-> 0]}

SignalInputs ==
    {NoSignal} \cup
    {[present |-> TRUE, importance |-> im, scan_confidence |-> sc] :
        im \in {NoField, 8000, 6996}, sc \in {NoField, 9000}}

FileItems ==
    {[id |-> a, filename |-> b, file_path |-> c, filesize_kb |-> d,
      sensitivity |-> e, recon_signal |-> f] :
        a \in {Missing, "f1"}, b \in {Missing, "a.txt"}, c \in {Missing, "C:/x/"},
        d \in SizeInputs, e \in {Missing, "high", "HIGH", "medium", "low", "secret"},
        f \in SignalInputs}

(* values of random.random() and of random.randint(0, 999999) *)
UnitDraws == {0, 5000, 9999}
IdDraws == {7, 999999}

InitNorm ==
    /\ pc = "h_normalize"
    /\ master_rows = <<>> /\ num_rows = 0 /\ all_pool = <<>> /\ dataset = <<>>
    /\ i = 0 /\ k = 0 /\ session_idx = <<>> /\ with_replacement = FALSE
    /\ session_items = <<>> /\ features = NoFeatures
    /\ evasion_flag = 0 /\ last_action = "SIM_NO_OP" /\ label = ""
    /\ noise_draw = 0 /\ noise_choice = 0
    /\ file_item \in FileItems
    /\ recon_item = NoItem /\ rng = 0 /\ process = 1 /\ call = 1
    /\ runs = <<>>

ApplyNormalize ==
    /\ pc = "h_normalize"
    /\ IF file_item_raises(file_item)
       THEN /\ pc' = "h_raised"
            /\ UNCHANGED recon_item
       ELSE /\ \E u_scan \in UnitDraws, u_imp \in UnitDraws, r_id \in IdDraws :
                 recon_item' = file_item_to_recon_item(file_item, u_scan, u_imp, r_id)
            /\ pc' = "h_normalized"
    /\ UNCHANGED <<master_rows, num_rows, all_pool, dataset, i, k, session_idx,
                   with_replacement, session_items, features, evasion_flag,
                   last_action, label, noise_draw, noise_choice, file_item, rng,
                   process, call, runs>>

NextNorm == ApplyNormalize

SpecNorm == InitNorm /\ [][NextNorm]_vars

-----------------------------------------------------------------------------
(* Properties of rule_based_label (SpecLabel) *)

Rule1 == features.count_high_importance_items >= 1 /\ evasion_flag = 0
Rule2 == /\ features.top_item_type = "port"
         /\ features.max_importance_score >= 6000
         /\ evasion_flag = 0
Rule3 == /\ features.top_item_type = "process"
         /\ features.max_importance_score >= 5000

(* C1: the label is that of the first rule that matches, in the order
   rule 1 (SIM_READ_FILE), rule 2 (SIM_SCAN_PORT), rule 3
   (SIM_LIST_PROCESSES), default (SIM_NO_OP); a record matching rules 1 and
   2 is labelled SIM_READ_FILE. *)
C1_FirstMatchWins ==
    pc = "h_labelled" =>
        /\ Rule1 => label = "SIM_READ_FILE"
        /\ (~Rule1 /\ Rule2) => label = "SIM_SCAN_PORT"
        /\ (~Rule1 /\ ~Rule2 /\ Rule3) => label = "SIM_LIST_PROCESSES"
        /\ (~Rule1 /\ ~Rule2 /\ ~Rule3) => label = "SIM_NO_OP"

C1_Witness ==
    /\ pc = "h_labelled"
    /\ features.count_high_importance_items >= 1
    /\ features.top_item_type = "port"
    /\ features.max_importance_score >= 6000
    /\ evasion_flag = 0
    /\ label = "SIM_READ_FILE"

(* C2: with evasion_flag = 1 the cascade yields neither SIM_READ_FILE nor
   SIM_SCAN_PORT: it yields SIM_LIST_PROCESSES when rule 3 matches and
   SIM_NO_OP otherwise. *)
C2_EvasionSuppresses ==
    (pc = "h_labelled" /\ evasion_flag = 1) =>
        /\ label \notin {"SIM_READ_FILE", "SIM_SCAN_PORT"}
        /\ label = IF Rule3 THEN "SIM_LIST_PROCESSES" ELSE "SIM_NO_OP"

C2_Witness ==
    /\ pc = "h_labelled"
    /\ evasion_flag = 1
    /\ features.count_high_importance_items >= 1
    /\ features.top_item_type = "port"
    /\ features.max_importance_score >= 6000
    /\ label = "SIM_NO_OP"

-----------------------------------------------------------------------------
(* Properties of aggregate_features (SpecAgg) *)

KeyEq(a, b) == a.importance = b.importance /\ a.scan_confidence = b.scan_confidence

KeyLess(a, b) ==
    \/ a.importance < b.importance
    \/ (a.importance = b.importance /\ a.scan_confidence < b.scan_confidence)

(* C5: the top item maximises (importance, scan_confidence) in lexicographic
   order and is the first item of the batch that does; top_item_id and
   top_item_name are its id and name. *)
C5_TopItemLexMax ==
    pc = "h_aggregated" =>
        \E j \in 1..Len(session_items) :
            /\ features.top_item_id = session_items[j].id
            /\ features.top_item_name = session_items[j].name
            /\ \A m \in 1..Len(session_items) :
                   KeyLess(session_items[m], session_items[j])
                       \/ KeyEq(session_items[m], session_items[j])
            /\ \A m \in 1..(j - 1) : KeyLess(session_items[m], session_items[j])

C5_Witness ==
    /\ pc = "h_aggregated"
    /\ Len(session_items) = 3
    /\ KeyEq(session_items[2], session_items[3])
    /\ KeyLess(session_items[1], session_items[2])
    /\ session_items[1].importance = session_items[2].importance
    /\ features.top_item_id = session_items[2].id

TypeCount(t) == Cardinality({n \in 1..Len(session_items) : session_items[n].type = t})

(* C6: top_item_type has the maximal number of occurrences in the batch, and
   among the types with that number it is the smallest in the order
   file < port < process. *)
C6_TopTypeMostFrequent ==
    pc = "h_aggregated" =>
        /\ features.top_item_type \in Types
        /\ \A t \in Types : TypeCount(t) <= TypeCount(features.top_item_type)
        /\ \A t \in Types :
               TypeCount(t) = TypeCount(features.top_item_type) =>
                   TypeOrder(features.top_item_type) <= TypeOrder(t)

C6_Witness ==
    /\ pc = "h_aggregated"
    /\ Len(session_items) = 2
    /\ session_items[1].type = "process"
    /\ session_items[2].type = "port"
    /\ features.top_item_type = "port"

RECURSIVE SumSizesOver(_)
SumSizesOver(S) ==
    IF S = {} THEN 0
    ELSE LET n == CHOOSE x \in S : TRUE
         IN  Get(session_items[n].filesize_kb, 0) + SumSizesOver(S \ {n})

(* C7: total_filesize_kb is the sum of filesize_kb over the items of type
   file; a size carried by a process or port item adds nothing. *)
C7_TotalFileSizeFilesOnly ==
    pc = "h_aggregated" =>
        features.total_filesize_kb =
            SumSizesOver({n \in 1..Len(session_items) : session_items[n].type = "file"})

C7_Witness ==
    /\ pc = "h_aggregated"
    /\ \E a, b, c \in 1..Len(session_items) :
           /\ session_items[a].type = "file" /\ session_items[a].filesize_kb = 300
           /\ session_items[b].type = "process" /\ session_items[b].filesize_kb = 300
           /\ session_items[c].type = "port" /\ session_items[c].filesize_kb = 300
    /\ features.total_filesize_kb = 300

-----------------------------------------------------------------------------
(* Properties of file_item_to_recon_item (SpecNorm) *)

(* C8: normalising a source record never raises, also when filesize_kb is
   not numeric. *)
C8_NormalizeNeverRaises == pc # "h_raised"

SensOf(fi) == Lower(IF fi.sensitivity = Missing THEN "" ELSE fi.sensitivity)

InSensitivityRange(fi, v) ==
    IF SensOf(fi) = "high" THEN 7000 <= v /\ v <= 10000
    ELSE IF SensOf(fi) = "medium" THEN 4000 <= v /\ v <= 7000
    ELSE 0 <= v /\ v <= 5000

HasExplicitImportance(fi) ==
    fi.recon_signal.present /\ fi.recon_signal.importance # NoField

(* C9 as claimed: the importance is the explicit upstream value when there
   is one and is otherwise, a signal object without importance included,
   in the range of the sensitivity category. *)
C9_ImportanceExplicitElseSensitivity ==
    pc = "h_normalized" =>
        IF HasExplicitImportance(file_item)
        THEN recon_item.importance = file_item.recon_signal.importance
        ELSE InSensitivityRange(file_item, recon_item.importance)

(* C9 amended: the importance is the explicit upstream value when the signal
   object supplies one, 0.5 when the record has a signal object without an
   importance value, and in the range of the sensitivity category when the
   record has no signal object. *)
C9_ImportanceResolution ==
    pc = "h_normalized" =>
        IF HasExplicitImportance(file_item)
        THEN recon_item.importance = file_item.recon_signal.importance
        ELSE IF file_item.recon_signal.present
        THEN recon_item.importance = 5000
        ELSE InSensitivityRange(file_item, recon_item.importance)

C9_Witness ==
    /\ pc = "h_normalized"
    /\ file_item.recon_signal.present
    /\ file_item.recon_signal.importance = NoField
    /\ SensOf(file_item) = "high"
    /\ recon_item.importance = 5000

-----------------------------------------------------------------------------
(* generate_attack_dataset, one action per statement of the row loop.  Every
   action takes the values of its random draws and the state the stream has
   after them, so that the same actions run with arbitrary draws (Spec) and
   with the draws of the seeded stream (SpecDet). *)

Injective(f) == \A a, b \in DOMAIN f : f[a] = f[b] => a = b

Row ==
    [id |-> "session_" \o Pad(i, 5),
     recon_count |-> k,
     evasion_flag |-> evasion_flag,
     last_action |-> last_action,
     features |-> features,
     label |-> label,
     top_item_id |-> features.top_item_id,
     top_item_type |-> features.top_item_type,
     top_item_name |-> features.top_item_name]

(* the row that csv.DictWriter writes for a row of the dataset *)
CsvRow(r) ==
    <<r.id, r.recon_count, r.evasion_flag, r.last_action,
      r.features.max_importance_score, r.features.avg_importance_score,
      r.features.count_high_importance_items, r.features.top_item_type,
      r.features.top_item_filesize_kb, r.features.total_filesize_kb,
      r.features.avg_scan_confidence, r.label>>

(* the three pool comprehensions; raised: a call of file_item_to_recon_item
   raised and the exception left generate_attack_dataset *)
BuildPools(raised, file_pool, proc_pool, port_pool, s) ==
    /\ pc = "build"
    /\ IF raised
       THEN /\ pc' = "raised"
            /\ UNCHANGED <<all_pool, dataset, i>>
       ELSE /\ all_pool' = file_pool \o proc_pool \o port_pool
            /\ dataset' = <<>>
            /\ i' = 0
            /\ pc' = "loop"
    /\ rng' = s
    /\ UNCHANGED <<master_rows, num_rows, k, session_idx, with_replacement,
                   session_items, features, evasion_flag, last_action, label,
                   noise_draw, noise_choice, file_item, recon_item, process,
                   call, runs>>

(* k = random.randint(MIN_ITEMS, MAX_ITEMS) *)
PickK(d, s) ==
    /\ pc = "loop"
    /\ i < num_rows
    /\ d \in MIN_ITEMS..MAX_ITEMS
    /\ k' = d
    /\ pc' = "sample"
    /\ rng' = s
    /\ UNCHANGED <<master_rows, num_rows, all_pool, dataset, i, session_idx,
                   with_replacement, session_items, features, evasion_flag,
                   last_action, label, noise_draw, noise_choice, file_item,
                   recon_item, process, call, runs>>

(* variant: the comparison len(all_pool) > k *)
Sample_strictly_larger(idx, s) ==
    /\ pc = "sample"
    /\ idx \in [1..k -> 1..Len(all_pool)]
    /\ IF Len(all_pool) > k
       THEN Injective(idx) /\ with_replacement' = FALSE
       ELSE with_replacement' = TRUE
    /\ session_idx' = idx
    /\ session_items' = [n \in 1..k |-> all_pool[idx[n]]]
    /\ pc' = "aggregate"
    /\ rng' = s
    /\ UNCHANGED <<master_rows, num_rows, all_pool, dataset, i, k, features,
                   evasion_flag, last_action, label, noise_draw, noise_choice,
                   file_item, recon_item, process, call, runs>>

(* random.sample(all_pool, k) if len(all_pool) >= k
   else [random.choice(all_pool) for _ in range(k)]; idx: the positions drawn *)
Sample(idx, s) ==
    /\ pc = "sample"
    /\ idx \in [1..k -> 1..Len(all_pool)]
    /\ IF Len(all_pool) >= k
       THEN Injective(idx) /\ with_replacement' = FALSE
       ELSE with_replacement' = TRUE
    /\ session_idx' = idx
    /\ session_items' = [n \in 1..k |-> all_pool[idx[n]]]
    /\ pc' = "aggregate"
    /\ rng' = s
    /\ UNCHANGED <<master_rows, num_rows, all_pool, dataset, i, k, features,
                   evasion_flag, last_action, label, noise_draw, noise_choice,
                   file_item, recon_item, process, call, runs>>

Aggregate ==
    /\ pc = "aggregate"
    /\ features' = aggregate_features(session_items)
    /\ pc' = "evasion"
    /\ UNCHANGED <<master_rows, num_rows, all_pool, dataset, i, k, session_idx,
                   with_replacement, session_items, evasion_flag, last_action,
                   label, noise_draw, noise_choice, file_item, recon_item, rng,
                   process, call, runs>>

(* evasion_flag = 1 if random.random() < EVASION_PROB else 0 *)
Evasion(u, s) ==
    /\ pc = "evasion"
    /\ evasion_flag' = IF u < EVASION_PROB THEN 1 ELSE 0
    /\ pc' = "last_action"
    /\ rng' = s
    /\ UNCHANGED <<master_rows, num_rows, all_pool, dataset, i, k, session_idx,
                   with_replacement, session_items, features, last_action,
                   label, noise_draw, noise_choice, file_item, recon_item,
                   process, call, runs>>

(* last_action = random.choice(SIM_LABELS); c: the index drawn *)
LastAction(c, s) ==
    /\ pc = "last_action"
    /\ c \in 0..(Len(SIM_LABELS) - 1)
    /\ last_action' = SIM_LABELS[c + 1]
    /\ pc' = "rule"
    /\ rng' = s
    /\ UNCHANGED <<master_rows, num_rows, all_pool, dataset, i, k, session_idx,
                   with_replacement, session_items, features, evasion_flag,
                   label, noise_draw, noise_choice, file_item, recon_item,
                   process, call, runs>>

RuleLabel ==
    /\ pc = "rule"
    /\ label' = rule_based_label(features, evasion_flag, last_action)
    /\ pc' = "noise"
    /\ UNCHANGED <<master_rows, num_rows, all_pool, dataset, i, k, session_idx,
                   with_replacement, session_items, features, evasion_flag,
                   last_action, noise_draw, noise_choice, file_item, recon_item,
                   rng, process, call, runs>>

(* variant: the comparison random.random() <= NOISE_FLIP_PROB *)
Noise_at_most(u, c, s_keep, s_flip) ==
    /\ pc = "noise"
    /\ c \in 0..(Len(SIM_LABELS) - 1)
    /\ noise_draw' = u
    /\ IF u <= NOISE_FLIP_PROB
       THEN /\ label' = SIM_LABELS[c + 1]
            /\ noise_choice' = c
            /\ rng' = s_flip
       ELSE /\ UNCHANGED <<label, noise_choice>>
            /\ rng' = s_keep
    /\ pc' = "row"
    /\ UNCHANGED <<master_rows, num_rows, all_pool, dataset, i, k, session_idx,
                   with_replacement, session_items, features, evasion_flag,
                   last_action, file_item, recon_item, process, call, runs>>

(* if random.random() < NOISE_FLIP_PROB: label = random.choice(SIM_LABELS);
   u: the value of random.random(), c: the index random.choice draws when it
   runs, s_keep and s_flip: the stream after one and after two draws *)
Noise(u, c, s_keep, s_flip) ==
    /\ pc = "noise"
    /\ c \in 0..(Len(SIM_LABELS) - 1)
    /\ noise_draw' = u
    /\ IF u < NOISE_FLIP_PROB
       THEN /\ label' = SIM_LABELS[c + 1]
            /\ noise_choice' = c
            /\ rng' = s_flip
       ELSE /\ UNCHANGED <<label, noise_choice>>
            /\ rng' = s_keep
    /\ pc' = "row"
    /\ UNCHANGED <<master_rows, num_rows, all_pool, dataset, i, k, session_idx,
                   with_replacement, session_items, features, evasion_flag,
                   last_action, file_item, recon_item, process, call, runs>>

(* row = {...}; dataset.append(row); and the loop index advances *)
AppendRow ==
    /\ pc = "row"
    /\ dataset' = Append(dataset, Row)
    /\ i' = i + 1
    /\ pc' = "loop"
    /\ UNCHANGED <<master_rows, num_rows, all_pool, k, session_idx,
                   with_replacement, session_items, features, evasion_flag,
                   last_action, label, noise_draw, noise_choice, file_item,
                   recon_item, rng, process, call, runs>>

(* after the loop: json.dump(dataset), the csv rows, return dataset *)
WriteOutputs ==
    /\ pc = "loop"
    /\ i >= num_rows
    /\ runs' = Append(runs, [process |-> process, call |-> call,
                             json |-> dataset,
                             csv |-> [n \in 1..Len(dataset) |-> CsvRow(dataset[n])]])
    /\ pc' = "done"
    /\ UNCHANGED <<master_rows, num_rows, all_pool, dataset, i, k, session_idx,
                   with_replacement, session_items, features, evasion_flag,
                   last_action, label, noise_draw, noise_choice, file_item,
                   recon_item, rng, process, call>>

-----------------------------------------------------------------------------
(* Spec: one run of the script, the draws of the random module arbitrary *)

(* source records of master-data.json *)
HighRecord ==
    [id |-> "f1", filename |-> "Loans_0001.pdf", file_path |-> "C:/BankData/Loans/",
     filesize_kb |-> [kind |-> "int", val |-> 300], sensitivity |-> "high",
     recon_signal |-> NoSignal]

BadSizeRecord == [HighRecord EXCEPT !.filesize_kb = [kind |-> "badstr", val |-> 0]]

MasterInputs == {<<>>, <<HighRecord>>, <<BadSizeRecord>>}

(* values of random.random() that the model draws *)
ProcImportanceDraws == {5500, 8000}
PortImportanceDraws == {6500, 8000}
PoolConfidenceDraws == {5000}
FileUnitDraws == {5000}
EvasionDraws == {1999, 2000}
NoiseDraws == {299, 300}
(* values of _randbelow that the model draws for last_action, the names and
   the ports *)
LastActionDraws == {0, 3}
NameDraws == {0}
PortDraws == {0}
EphemeralDraws == {1024}

RECURSIVE FilePools(_)
FilePools(rows) ==
    IF rows = <<>> THEN {<<>>}
    ELSE {<<file_item_to_recon_item(Head(rows), u_scan, u_imp, r_id)>> \o rest :
             u_scan \in PoolConfidenceDraws, u_imp \in FileUnitDraws,
             r_id \in IdDraws, rest \in FilePools(Tail(rows))}

ProcPools(n) ==
    {[j \in 1..n |-> synth_process_item(j - 1, c[j], u1[j], u2[j])] :
        c \in [1..n -> NameDraws], u1 \in [1..n -> ProcImportanceDraws],
        u2 \in [1..n -> PoolConfidenceDraws]}

PortPools(n) ==
    {[j \in 1..n |-> synth_port_item(j - 1, e[j], c[j], u1[j], u2[j])] :
        e \in [1..n -> EphemeralDraws], c \in [1..n -> PortDraws],
        u1 \in [1..n -> PortImportanceDraws], u2 \in [1..n -> PoolConfidenceDraws]}

AnyRaises(rows) == \E n \in 1..Len(rows) : file_item_raises(rows[n])

Init ==
    /\ pc = "build"
    /\ master_rows \in MasterInputs
    /\ num_rows = NUM_ROWS
    /\ all_pool = <<>> /\ dataset = <<>>
    /\ i = 0 /\ k = 0 /\ session_idx = <<>> /\ with_replacement = FALSE
    /\ session_items = <<>> /\ features = NoFeatures
    /\ evasion_flag = 0 /\ last_action = "SIM_NO_OP" /\ label = ""
    /\ noise_draw = 0 /\ noise_choice = 0
    /\ file_item = NoFileItem /\ recon_item = NoItem
    /\ rng = 0 /\ process = 1 /\ call = 1
    /\ runs = <<>>

Next ==
    \/ IF AnyRaises(master_rows)
       THEN BuildPools(TRUE, <<>>, <<>>, <<>>, rng)
       ELSE \E fp \in FilePools(master_rows), pp \in ProcPools(NumProc),
               tp \in PortPools(NumPort) : BuildPools(FALSE, fp, pp, tp, rng)
    \/ \E d \in MIN_ITEMS..MAX_ITEMS : PickK(d, rng)
    \/ \E idx \in [1..k -> 1..Len(all_pool)] : Sample(idx, rng)
    \/ Aggregate
    \/ \E u \in EvasionDraws : Evasion(u, rng)
    \/ \E c \in LastActionDraws : LastAction(c, rng)
    \/ RuleLabel
    \/ \E u \in NoiseDraws, c \in 0..(Len(SIM_LABELS) - 1) : Noise(u, c, rng, rng)
    \/ AppendRow
    \/ WriteOutputs

Spec == Init /\ [][Next]_vars

-----------------------------------------------------------------------------
(* SpecDet: the draws come from the stream that random.seed(RANDOM_SEED)
   starts at module load.  The Mersenne Twister is represented by a linear
   congruential generator: what matters is that the stream is a function of
   the seed and of the number of draws made so far. *)

RngModulus == 65537

RngStep(s) == (75 * s + 74) % RngModulus

Seed(n) == n % RngModulus

(* the values random.random() and _randbelow(n) return when the draw leaves
   the stream in state s *)
RandomOf(s) == s % 10000
RandBelowOf(s, n) == s % n

(* file_item_to_recon_item on the stream: scan_conf is drawn first, the
   importance only without a signal object, the id only without an id *)
DetFileItem(fi, s) ==
    LET s1 == RngStep(s)
        s2 == IF DrawsImportance(fi) THEN RngStep(s1) ELSE s1
        s3 == IF DrawsId(fi) THEN RngStep(s2) ELSE s2
    IN  [item |-> file_item_to_recon_item(fi, RandomOf(s1), RandomOf(s2),
                                          RandBelowOf(s3, 1000000)),
         rng |-> s3]

RECURSIVE DetFilePool(_, _)
DetFilePool(rows, s) ==
    IF rows = <<>> THEN [pool |-> <<>>, rng |-> s, raised |-> FALSE]
    ELSE LET h == DetFileItem(Head(rows), s)
         IN  IF file_item_raises(Head(rows))
             THEN [pool |-> <<>>, rng |-> h.rng, raised |-> TRUE]
             ELSE LET r == DetFilePool(Tail(rows), h.rng)
                  IN  [pool |-> <<h.item>> \o r.pool, rng |-> r.rng,
                       raised |-> r.raised]

RECURSIVE DetProcPool(_, _, _)
DetProcPool(j, n, s) ==
    IF j >= n THEN [pool |-> <<>>, rng |-> s]
    ELSE LET s1 == RngStep(s)
             s2 == RngStep(s1)
             s3 == RngStep(s2)
             r == DetProcPool(j + 1, n, s3)
         IN  [pool |-> <<synth_process_item(j, RandBelowOf(s1, Len(common)),
                                            RandomOf(s2), RandomOf(s3))>> \o r.pool,
              rng |-> r.rng]

RECURSIVE DetPortPool(_, _, _)
DetPortPool(j, n, s) ==
    IF j >= n THEN [pool |-> <<>>, rng |-> s]
    ELSE LET s1 == RngStep(s)
             s2 == RngStep(s1)
             s3 == RngStep(s2)
             s4 == RngStep(s3)
             r == DetPortPool(j + 1, n, s4)
         IN  [pool |-> <<synth_port_item(j, 1024 + RandBelowOf(s1, 65535 - 1024 + 1),
                                         RandBelowOf(s2, Len(common_ports) + 1),
                                         RandomOf(s3), RandomOf(s4))>> \o r.pool,
              rng |-> r.rng]

(* random.sample: result[i] = pool[j]; pool[j] = pool[n-i-1], j = _randbelow(n-i) *)
RECURSIVE DetSampleFrom(_, _, _)
DetSampleFrom(positions, count, s) ==
    IF count = 0 THEN [idx |-> <<>>, rng |-> s]
    ELSE LET s1 == RngStep(s)
             m == Len(positions)
             j == RandBelowOf(s1, m) + 1
             rest == SubSeq([positions EXCEPT ![j] = positions[m]], 1, m - 1)
             r == DetSampleFrom(rest, count - 1, s1)
         IN  [idx |-> <<positions[j]>> \o r.idx, rng |-> r.rng]

(* [random.choice(all_pool) for _ in range(k)] *)
RECURSIVE DetChoices(_, _, _)
DetChoices(n, count, s) ==
    IF count = 0 THEN [idx |-> <<>>, rng |-> s]
    ELSE LET s1 == RngStep(s)
             r == DetChoices(n, count - 1, s1)
         IN  [idx |-> <<RandBelowOf(s1, n) + 1>> \o r.idx, rng |-> r.rng]

DetSample(n, count, s) ==
    IF n >= count THEN DetSampleFrom([j \in 1..n |-> j], count, s)
    ELSE DetChoices(n, count, s)

MaxRuns == 3

NoIdRecord ==
    [id |-> Missing, filename |-> Missing, file_path |-> "C:/BankData/Rates/",
     filesize_kb |-> [kind |-> "numstr", val |-> 2500], sensitivity |-> "medium",
     recon_signal |-> NoSignal]

SignalRecord ==
    [HighRecord EXCEPT !.id = "f2",
                       !.recon_signal = [present |-> TRUE, importance |-> 6996,
                                         scan_confidence |-> NoField]]

DetInputs ==
    {<<>>, <<HighRecord>>, <<NoIdRecord>>, <<SignalRecord, NoIdRecord>>,
     <<HighRecord, BadSizeRecord>>}

(* module load, random.seed(RANDOM_SEED), and the call under __main__ *)
InitDet ==
    /\ pc = "build"
    /\ master_rows \in DetInputs
    /\ num_rows = NUM_ROWS
    /\ all_pool = <<>> /\ dataset = <<>>
    /\ i = 0 /\ k = 0 /\ session_idx = <<>> /\ with_replacement = FALSE
    /\ session_items = <<>> /\ features = NoFeatures
    /\ evasion_flag = 0 /\ last_action = "SIM_NO_OP" /\ label = ""
    /\ noise_draw = 0 /\ noise_choice = 0
    /\ file_item = NoFileItem /\ recon_item = NoItem
    /\ rng = Seed(RANDOM_SEED) /\ process = 1 /\ call = 1
    /\ runs = <<>>

NewFrame ==
    /\ pc' = "build"
    /\ all_pool' = <<>> /\ dataset' = <<>>
    /\ i' = 0 /\ k' = 0 /\ session_idx' = <<>> /\ with_replacement' = FALSE
    /\ session_items' = <<>> /\ features' = NoFeatures
    /\ evasion_flag' = 0 /\ last_action' = "SIM_NO_OP" /\ label' = ""
    /\ noise_draw' = 0 /\ noise_choice' = 0
    /\ UNCHANGED <<master_rows, num_rows, file_item, recon_item, runs>>

(* a second call of generate_attack_dataset with the same arguments in the
   same interpreter: nothing seeds the stream again *)
Reinvoke ==
    /\ pc = "done"
    /\ Len(runs) < MaxRuns
    /\ NewFrame
    /\ call' = call + 1
    /\ UNCHANGED <<rng, process>>

(* variant: a new process that keeps the stream where the last one left it *)
StartProcess_unseeded ==
    /\ pc = "done"
    /\ Len(runs) < MaxRuns
    /\ NewFrame
    /\ process' = process + 1
    /\ call' = 1
    /\ UNCHANGED rng

(* the script is run again: the module is loaded and line 37 seeds the stream *)
StartProcess ==
    /\ pc = "done"
    /\ Len(runs) < MaxRuns
    /\ NewFrame
    /\ rng' = Seed(RANDOM_SEED)
    /\ process' = process + 1
    /\ call' = 1

DetBuildPools ==
    /\ pc = "build"
    /\ LET f == DetFilePool(master_rows, rng)
           p == DetProcPool(0, NumProc, f.rng)
           t == DetPortPool(0, NumPort, p.rng)
       IN  BuildPools(f.raised, f.pool, p.pool, t.pool,
                      IF f.raised THEN f.rng ELSE t.rng)

DetPickK ==
    LET s1 == RngStep(rng)
    IN  PickK(MIN_ITEMS + RandBelowOf(s1, MAX_ITEMS - MIN_ITEMS + 1), s1)

DetSampleStep ==
    /\ pc = "sample"
    /\ LET r == DetSample(Len(all_pool), k, rng)
       IN  Sample(r.idx, r.rng)

DetEvasion == LET s1 == RngStep(rng) IN Evasion(RandomOf(s1), s1)

DetLastAction ==
    LET s1 == RngStep(rng) IN LastAction(RandBelowOf(s1, Len(SIM_LABELS)), s1)

DetNoise ==
    LET s1 == RngStep(rng)
        s2 == RngStep(s1)
    IN  Noise(RandomOf(s1), RandBelowOf(s2, Len(SIM_LABELS)), s1, s2)

NextDet ==
    \/ DetBuildPools
    \/ DetPickK
    \/ DetSampleStep
    \/ Aggregate
    \/ DetEvasion
    \/ DetLastAction
    \/ RuleLabel
    \/ DetNoise
    \/ AppendRow
    \/ WriteOutputs
    \/ Reinvoke
    \/ StartProcess

SpecDet == InitDet /\ [][NextDet]_vars

-----------------------------------------------------------------------------
(* Properties of the row loop (Spec) *)

InRow == pc \in {"aggregate", "evasion", "last_action", "rule", "noise", "row"}

RowAppended == pc \in {"loop", "done"} /\ i >= 1

(* C3: the noise step acts on the label the cascade produced: before it the
   label is the cascade's; after it the label is the cascade's when the draw
   is not below NOISE_FLIP_PROB and the label drawn from SIM_LABELS when it
   is; the label of every row is one of the four labels. *)
C3_NoiseAfterCascade ==
    /\ pc = "noise" => label = rule_based_label(features, evasion_flag, last_action)
    /\ (pc = "row" \/ RowAppended) =>
           /\ noise_draw >= NOISE_FLIP_PROB =>
                  label = rule_based_label(features, evasion_flag, last_action)
           /\ noise_draw < NOISE_FLIP_PROB => label = SIM_LABELS[noise_choice + 1]
           /\ label \in Labels
    /\ RowAppended =>
           /\ dataset[i].label = label
           /\ dataset[i].features = features
           /\ dataset[i].evasion_flag = evasion_flag
    /\ \A n \in 1..Len(dataset) : dataset[n].label \in Labels

C3_Witness ==
    /\ RowAppended
    /\ noise_draw < NOISE_FLIP_PROB
    /\ dataset[i].label = "SIM_SCAN_PORT"
    /\ rule_based_label(features, evasion_flag, last_action) = "SIM_READ_FILE"
    /\ \E n \in 1..Len(dataset) :
           /\ n # i
           /\ dataset[n].label =
                  rule_based_label(dataset[n].features, dataset[n].evasion_flag,
                                   dataset[n].last_action)

(* C4: MIN_ITEMS <= k <= MAX_ITEMS; the batch has k items, each the pool item
   at the position drawn; recon_count is k; with a pool of at least k items
   no position is drawn twice, and the draw with replacement runs only with
   a pool smaller than k. *)
C4_BatchSampling ==
    /\ (InRow \/ RowAppended) =>
           /\ MIN_ITEMS <= k /\ k <= MAX_ITEMS
           /\ Len(session_items) = k
           /\ Len(session_idx) = k
           /\ \A n \in 1..k :
                  /\ session_idx[n] \in 1..Len(all_pool)
                  /\ session_items[n] = all_pool[session_idx[n]]
           /\ Len(all_pool) >= k => (Injective(session_idx) /\ ~with_replacement)
           /\ with_replacement => Len(all_pool) < k
    /\ RowAppended => dataset[i].recon_count = k
    /\ \A n \in 1..Len(dataset) :
           MIN_ITEMS <= dataset[n].recon_count /\ dataset[n].recon_count <= MAX_ITEMS

C4_Witness ==
    /\ RowAppended
    /\ Len(all_pool) = k
    /\ k >= 2
    /\ Injective(session_idx)
    /\ dataset[i].recon_count = k
    /\ \E n \in 1..Len(dataset) : dataset[n].recon_count > Len(all_pool)

-----------------------------------------------------------------------------
(* Properties of the seeded stream (SpecDet) *)

SameOutput(a, b) == a.json = b.json /\ a.csv = b.csv

(* C10 as claimed: any two invocations of generate_attack_dataset with the
   same arguments write the same structured and tabular output. *)
C10_AnyTwoInvocationsAgree ==
    \A a, b \in 1..Len(runs) : SameOutput(runs[a], runs[b])

(* C10 amended: two runs of the script, each in a fresh process seeded at
   module load, write the same output, and so do the n-th invocations of two
   processes; invocations of one process share the stream and need not. *)
C10_SameSeedSameOutput ==
    \A a, b \in 1..Len(runs) :
        runs[a].call = runs[b].call => SameOutput(runs[a], runs[b])

C10_Witness ==
    /\ Len(runs) = 3
    /\ runs[1].process = 1 /\ runs[1].call = 1
    /\ runs[2].process = 1 /\ runs[2].call = 2
    /\ runs[3].process = 2 /\ runs[3].call = 1
    /\ Len(runs[1].json) = NUM_ROWS
    /\ SameOutput(runs[1], runs[3])
    /\ ~SameOutput(runs[1], runs[2])

====
